---- MODULE Spec2Model ----
(***************************************************************************)
(* Model of src/src/scene/camera/Ortho.js: the Ortho projection component *)
(* (scale / near / far setters) and the BatchingOcclusionRenderer          *)
(* (constructor, getValid, drawLayer, _allocate, webglContextRestored,    *)
(* destroy), together with the collaborators the renderer reads: the      *)
(* scene's section-plane list, the batching layers, the per-frame context *)
(* and the Program objects.                                               *)
(*                                                                         *)
(* JavaScript values: a null program has id 0 (program ids start at 1), a  *)
(* null vec3 is the empty tuple.  Numbers of the Ortho component are       *)
(* fixed-point integers in thousandths (1.0 is 1000, 0.01 is 10).          *)
(***************************************************************************)
EXTENDS Integers, Sequences, FiniteSets, TLC

VARIABLES sectionPlanes, renderer, frameCtx, nextProgramId, destroyedTwice,
          discardedProgram, restorePending, uniformActive, lastCall, ortho, orthoCalls

vars == <<sectionPlanes, renderer, frameCtx, nextProgramId, destroyedTwice,
          discardedProgram, restorePending, uniformActive, lastCall, ortho, orthoCalls>>

rendererVars == <<sectionPlanes, renderer, frameCtx, nextProgramId, destroyedTwice,
                  discardedProgram, restorePending, uniformActive, lastCall>>

orthoVars == <<ortho, orthoCalls>>

----------------------------------------------------------------------------
(* Bounds *)

MaxPlanes == 1

NumLayers == 4

MaxPrograms == 2

----------------------------------------------------------------------------
(* Scene collaborators *)

Planes == 1..MaxPlanes

Layers == 1..NumLayers

RangeOf(s) == {s[i] : i \in 1..Len(s)}

RemoveAt(s, i) == SubSeq(s, 1, i - 1) \o SubSeq(s, i + 1, Len(s))

(* scene._sectionPlanesState.getHash(): structural signature of the plane list *)
getHash(planes) == planes

(* batchingLayer.layerIndex *)
layerIndex(l) == l - 1

(* a null vec3 reference *)
NullVec == <<>>

(* batchingLayer._state.rtcCenter: null for layer 1, otherwise a vec3; layers 3 and 4
   hold distinct arrays with equal components *)
rtcCenter(l) == IF l = 1 THEN NullVec ELSE <<(l + 1) \div 2, 0, 0>>

(* model.renderFlags.sectionPlanesActivePerLayer[k]; reading past the end of the
   array gives undefined, which is falsy *)
sectionPlanesActivePerLayer(k, numSectionPlanes) ==
    IF k >= NumLayers * numSectionPlanes THEN FALSE
    ELSE ((k \div numSectionPlanes) + (k % numSectionPlanes)) % 3 # 2

(* math.compareVec3: component-wise equality *)
compareVec3(v1, v2) == v1[1] = v2[1] /\ v1[2] = v2[2] /\ v1[3] = v2[3]

(* the optional attributes the BatchingOcclusionShaderSource built for a scene
   declares besides position and flags: flags2 "won't be in shader when not
   clipping" (line 328); offset and color are taken to come and go with it *)
ShaderAttrs(planes) == IF Len(planes) > 0 THEN {"offset", "color", "flags2"} ELSE {}

----------------------------------------------------------------------------
(* Program objects *)

NoProgram == [id |-> 0, errors |-> FALSE, destroyed |-> FALSE]

(* new Program(gl, shaderSource): a fresh object; errors is set when compilation fails *)
NewProgram(id, ok) == [id |-> id, errors |-> ~ok, destroyed |-> FALSE]

----------------------------------------------------------------------------
(* BatchingOcclusionRenderer *)

(* the fields of an instance before its constructor body has run *)
BlankRenderer ==
    [program |-> NoProgram, hash |-> <<>>, errors |-> FALSE, uSectionPlanes |-> 0,
     located |-> FALSE, shaderAttrs |-> {}]

(* variant: the validity check compares the cached hash with itself *)
getValid_Always(r, planes) == r.hash = r.hash

getValid(r, planes) == r.hash = getHash(planes)

_allocate(r, planes, id, ok) ==
    LET program == NewProgram(id, ok)
    IN IF program.errors
       THEN [r EXCEPT !.program = program, !.errors = TRUE]
       ELSE [r EXCEPT !.program = program, !.uSectionPlanes = Len(planes), !.located = TRUE]

(* the GPU-side calls _allocate makes *)
AllocateCalls(id, ok) ==
    IF ok THEN <<<<"newProgram", id, 0>>, <<"getLocations", id, 0>>>>
    ELSE <<<<"newProgram", id, 0>>>>

Constructor(planes, id, ok) ==
    _allocate([BlankRenderer EXCEPT !.hash = getHash(planes),
                                    !.shaderAttrs = ShaderAttrs(planes)],
              planes, id, ok)

(* the values of the sectionPlaneActive uniforms of the program held by renderer r
   right after it was created: a program that linked has one per located plane, each
   zero until written; a program that failed has none *)
FreshUniforms(r) ==
    IF r.program = NoProgram \/ r.program.errors THEN <<>>
    ELSE [j \in 1..r.uSectionPlanes |-> 0]

(* the uniform values after the gl.uniform1i(sectionPlaneUniforms.active, ...) writes
   (line 298) among calls were applied to the values u *)
UniformsAfter(u, calls) ==
    [j \in 1..Len(u) |->
        IF \E k \in 1..Len(calls) : calls[k][1] = "sectionPlaneActive" /\ calls[k][2] = j - 1
        THEN calls[CHOOSE k \in 1..Len(calls) :
                      calls[k][1] = "sectionPlaneActive" /\ calls[k][2] = j - 1][3]
        ELSE u[j]]

(* number of calls named name in a sequence of GPU calls *)
Count(calls, name) == Cardinality({i \in 1..Len(calls) : calls[i][1] = name})

(* lines 290-312: the section-plane uniform reload loop, from index i on.  An entry
   of _uSectionPlanes that does not exist makes sectionPlaneUniforms undefined and
   the read of its .active field throws. *)
RECURSIVE LoadSectionPlanes(_, _, _, _, _)
LoadSectionPlanes(r, i, numSectionPlanes, l, calls) ==
    IF i >= numSectionPlanes THEN [calls |-> calls, threw |-> FALSE]
    ELSE IF ~r.located \/ i >= r.uSectionPlanes THEN [calls |-> calls, threw |-> TRUE]
    ELSE LET active == sectionPlanesActivePerLayer(layerIndex(l) * numSectionPlanes + i,
                                                   numSectionPlanes)
             writes == IF active
                       THEN <<<<"sectionPlaneActive", i, 1>>,
                              <<"sectionPlanePos", i, IF rtcCenter(l) # NullVec THEN 1 ELSE 0>>,
                              <<"sectionPlaneDir", i, 0>>>>
                       ELSE <<<<"sectionPlaneActive", i, 0>>>>
         IN LoadSectionPlanes(r, i + 1, numSectionPlanes, l, calls \o writes)

(* variant: the branch for a layer without RTC center after one with a center
   (lines 285-288) is missing *)
RTCStep_NoNullBranch(fc, l) ==
    IF rtcCenter(l) # NullVec
    THEN IF fc.lastRTCCenter # NullVec
         THEN IF ~compareVec3(rtcCenter(l), fc.lastRTCCenter)
              THEN [lastRTCCenter |-> rtcCenter(l), load |-> TRUE]
              ELSE [lastRTCCenter |-> fc.lastRTCCenter, load |-> FALSE]
         ELSE [lastRTCCenter |-> rtcCenter(l), load |-> TRUE]
    ELSE [lastRTCCenter |-> fc.lastRTCCenter, load |-> FALSE]

(* variant: a changed RTC center triggers the reload but is not stored in the frame
   context (lines 278 and 282 missing) *)
RTCStep_CenterNotStored(fc, l) ==
    IF rtcCenter(l) # NullVec
    THEN IF fc.lastRTCCenter # NullVec
         THEN IF ~compareVec3(rtcCenter(l), fc.lastRTCCenter)
              THEN [lastRTCCenter |-> fc.lastRTCCenter, load |-> TRUE]
              ELSE [lastRTCCenter |-> fc.lastRTCCenter, load |-> FALSE]
         ELSE [lastRTCCenter |-> fc.lastRTCCenter, load |-> TRUE]
    ELSE IF fc.lastRTCCenter # NullVec
         THEN [lastRTCCenter |-> NullVec, load |-> TRUE]
         ELSE [lastRTCCenter |-> fc.lastRTCCenter, load |-> FALSE]

(* lines 275-288: the RTC-center elision; gives the new frameCtx.lastRTCCenter and
   whether the section planes must be reloaded *)
RTCStep(fc, l) ==
    IF rtcCenter(l) # NullVec
    THEN IF fc.lastRTCCenter # NullVec
         THEN IF ~compareVec3(rtcCenter(l), fc.lastRTCCenter)
              THEN [lastRTCCenter |-> rtcCenter(l), load |-> TRUE]
              ELSE [lastRTCCenter |-> fc.lastRTCCenter, load |-> FALSE]
         ELSE [lastRTCCenter |-> rtcCenter(l), load |-> TRUE]
    ELSE IF fc.lastRTCCenter # NullVec
         THEN [lastRTCCenter |-> NullVec, load |-> TRUE]
         ELSE [lastRTCCenter |-> fc.lastRTCCenter, load |-> FALSE]

(* variant: the decode-matrix uniform is not written *)
BindAndDraw_NoDecodeMatrix(r, l) ==
    IF ~r.located
    THEN [calls |-> <<>>, threw |-> TRUE]
    ELSE [calls |-> <<<<"aPosition", l, 0>>>>
                    \o (IF "offset" \in r.shaderAttrs THEN <<<<"aOffset", l, 0>>>> ELSE <<>>)
                    \o (IF "color" \in r.shaderAttrs THEN <<<<"aColor", l, 0>>>> ELSE <<>>)
                    \o <<<<"aFlags", l, 0>>>>
                    \o (IF "flags2" \in r.shaderAttrs THEN <<<<"aFlags2", l, 0>>>> ELSE <<>>)
                    \o <<<<"indicesBuf", l, 0>>, <<"drawElements", l, r.program.id>>>>,
          threw |-> FALSE]

(* variant: the flags2 buffer is bound whether or not the shader declares flags2 *)
BindAndDraw_Flags2Always(r, l) ==
    IF ~r.located
    THEN [calls |-> <<<<"positionsDecodeMatrix", l, 0>>>>, threw |-> TRUE]
    ELSE [calls |-> <<<<"positionsDecodeMatrix", l, 0>>, <<"aPosition", l, 0>>>>
                    \o (IF "offset" \in r.shaderAttrs THEN <<<<"aOffset", l, 0>>>> ELSE <<>>)
                    \o (IF "color" \in r.shaderAttrs THEN <<<<"aColor", l, 0>>>> ELSE <<>>)
                    \o <<<<"aFlags", l, 0>>, <<"aFlags2", l, 0>>>>
                    \o <<<<"indicesBuf", l, 0>>, <<"drawElements", l, r.program.id>>>>,
          threw |-> FALSE]

(* lines 314-334: decode matrix, attribute buffers, index buffer, draw call.
   _aPosition is undefined until an allocation has succeeded, and calling
   bindArrayBuffer on it throws. *)
BindAndDraw(r, l) ==
    IF ~r.located
    THEN [calls |-> <<<<"positionsDecodeMatrix", l, 0>>>>, threw |-> TRUE]
    ELSE [calls |-> <<<<"positionsDecodeMatrix", l, 0>>, <<"aPosition", l, 0>>>>
                    \o (IF "offset" \in r.shaderAttrs THEN <<<<"aOffset", l, 0>>>> ELSE <<>>)
                    \o (IF "color" \in r.shaderAttrs THEN <<<<"aColor", l, 0>>>> ELSE <<>>)
                    \o <<<<"aFlags", l, 0>>>>
                    \o (IF "flags2" \in r.shaderAttrs THEN <<<<"aFlags2", l, 0>>>> ELSE <<>>)
                    \o <<<<"indicesBuf", l, 0>>, <<"drawElements", l, r.program.id>>>>,
          threw |-> FALSE]

(* variant: the view-matrix uniform is always written with the model's view matrix *)
MatrixCalls_PlainView(l) == <<<<"viewMatrix", l, 0>>, <<"projMatrix", l, 0>>>>

(* lines 271-273: the view-matrix uniform is written with createRTCViewMat(
   model.viewMatrix, rtcCenter) (1) when the layer has an RTC center and with
   model.viewMatrix (0) otherwise, the projection uniform with
   camera._project._state.matrix (0) *)
MatrixCalls(l) ==
    <<<<"viewMatrix", l, IF rtcCenter(l) # NullVec THEN 1 ELSE 0>>, <<"projMatrix", l, 0>>>>

(* variant: the program is bound on every draw *)
NeedsBind_Always(fc, program) == TRUE

(* line 265: the program is bound only when the frame last bound another one *)
NeedsBind(fc, program) == fc.lastProgramId # program.id

(* the whole of drawLayer(frameCtx, batchingLayer): the renderer and frame context it
   leaves, the GPU calls it made in order, and how it ended *)
DrawLayerCall(r, fc, planes, l, id, ok) ==
    LET needAlloc == r.program = NoProgram
        r1 == IF needAlloc THEN _allocate(r, planes, id, ok) ELSE r
        allocCalls == IF needAlloc THEN AllocateCalls(id, ok) ELSE <<>>
    IN IF needAlloc /\ r1.errors
       THEN [renderer |-> r1, frameCtx |-> fc, gl |-> allocCalls, outcome |-> "returned",
             allocated |-> TRUE, bound |-> FALSE, loadSectionPlanes |-> FALSE]
       ELSE
       LET rebind == NeedsBind(fc, r1.program)
           bindCalls == IF rebind THEN <<<<"bind", r1.program.id, 0>>>> ELSE <<>>
           matCalls == MatrixCalls(l)
           rtc == RTCStep(fc, l)
           load == rebind \/ rtc.load
           fc1 == [lastProgramId |-> r1.program.id, lastRTCCenter |-> rtc.lastRTCCenter]
           sp == IF load THEN LoadSectionPlanes(r1, 0, Len(planes), l, <<>>)
                 ELSE [calls |-> <<>>, threw |-> FALSE]
           draw == IF sp.threw THEN [calls |-> <<>>, threw |-> TRUE] ELSE BindAndDraw(r1, l)
       IN [renderer |-> r1, frameCtx |-> fc1,
           gl |-> allocCalls \o bindCalls \o matCalls \o sp.calls \o draw.calls,
           outcome |-> IF draw.threw THEN "threw" ELSE "drew",
           allocated |-> needAlloc, bound |-> rebind, loadSectionPlanes |-> load]

----------------------------------------------------------------------------
(* Ortho *)

Undefined == [t |-> "undefined", v |-> 0]

Null == [t |-> "null", v |-> 0]

Num(n) == [t |-> "number", v |-> n]

(* values assigned to the properties, in thousandths *)
ScaleInputs == {Undefined, Null} \cup {Num(n) : n \in {-1000, 0, 5, 10, 2000}}

NearInputs == {Undefined, Null} \cup {Num(n) : n \in {-500, 0, 250}}

FarInputs == {Undefined, Null} \cup {Num(n) : n \in {0, 5000, 20000000}}

(* 1.0, 0.01, 0.1 and 10000.0 in thousandths *)
DefaultScale == 1000

MinScale == 10

DefaultNear == 100

DefaultFar == 10000000

(* the value the scale setter stores, lines 125-131 *)
ScaleStored(value) ==
    LET v1 == IF value = Undefined \/ value = Null THEN Num(DefaultScale) ELSE value
        v2 == IF v1.v <= 0 THEN Num(MinScale) ELSE v1
    IN v2.v

(* variant: only undefined selects the default *)
NearStored_OnlyUndefined(value) == IF value # Undefined THEN value.v ELSE DefaultNear

(* the value the near setter stores, line 156 *)
NearStored(value) == IF value # Undefined /\ value # Null THEN value.v ELSE DefaultNear

(* the value the far setter stores, line 181 *)
FarStored(value) == IF value # Undefined /\ value # Null THEN value.v ELSE DefaultFar

(* Component._needUpdate(): schedules _update; the matrix getter reads the flag *)
NeedUpdate(o) == [o EXCEPT !.updateScheduled = TRUE]

(* the calls a setter makes after storing: this._needUpdate(), then this.fire(name, stored) *)
SetterCalls(name, stored) == <<<<"_needUpdate", "", 0>>, <<"fire", name, stored>>>>

SetScale(o, value) == NeedUpdate([o EXCEPT !.scale = ScaleStored(value)])

SetNear(o, value) == NeedUpdate([o EXCEPT !.near = NearStored(value)])

SetFar(o, value) == NeedUpdate([o EXCEPT !.far = FarStored(value)])

(* Ortho.init(cfg), lines 65-67: the three setters in order *)
OrthoInit(cfg) ==
    SetFar(SetNear(SetScale([scale |-> 0, near |-> 0, far |-> 0, updateScheduled |-> FALSE],
                            cfg.scale), cfg.near), cfg.far)

(* Ortho.init({}) *)
DefaultOrtho == OrthoInit([scale |-> Undefined, near |-> Undefined, far |-> Undefined])

setScale ==
    \E value \in ScaleInputs :
        /\ ortho' = SetScale(ortho, value)
        /\ orthoCalls' = [op |-> "scale", value |-> value,
                          calls |-> SetterCalls("scale", ortho'.scale)]

setNear ==
    \E value \in NearInputs :
        /\ ortho' = SetNear(ortho, value)
        /\ orthoCalls' = [op |-> "near", value |-> value,
                          calls |-> SetterCalls("near", ortho'.near)]

setFar ==
    \E value \in FarInputs :
        /\ ortho' = SetFar(ortho, value)
        /\ orthoCalls' = [op |-> "far", value |-> value,
                          calls |-> SetterCalls("far", ortho'.far)]

(* get matrix, lines 205-210: a scheduled update is carried out before the matrix is
   returned, and _update fires "matrix" *)
getMatrix ==
    /\ ortho' = [ortho EXCEPT !.updateScheduled = FALSE]
    /\ orthoCalls' = [op |-> "matrix", value |-> Undefined,
                      calls |-> IF ortho.updateScheduled
                                THEN <<<<"_doUpdate", "", 0>>, <<"fire", "matrix", 0>>>>
                                ELSE <<>>]

NoOrthoCalls == [op |-> "init", value |-> Undefined, calls |-> <<>>]

----------------------------------------------------------------------------
(* State after construction: new BatchingOcclusionRenderer(scene) on a scene that
   holds any list of distinct section planes, with a fresh frame context *)

PlaneLists ==
    {<<>>} \cup {<<p>> : p \in Planes}
           \cup {<<p, q>> : <<p, q>> \in {pq \in Planes \X Planes : pq[1] # pq[2]}}

FreshFrameCtx == [lastProgramId |-> 0, lastRTCCenter |-> NullVec]

(* what a call that touches no GPU state leaves in lastCall *)
PlainCall(op) ==
    [op |-> op, layer |-> 0, outcome |-> "returned", gl |-> <<>>, allocated |-> FALSE,
     bound |-> FALSE, loadSectionPlanes |-> FALSE]

InitRenderer ==
    /\ sectionPlanes \in PlaneLists
    /\ \E ok \in BOOLEAN :
          /\ renderer = Constructor(sectionPlanes, 1, ok)
          /\ lastCall = [op |-> "constructor", layer |-> 0, outcome |-> "returned",
                         gl |-> AllocateCalls(1, ok), allocated |-> TRUE, bound |-> FALSE,
                         loadSectionPlanes |-> FALSE]
    /\ frameCtx = FreshFrameCtx
    /\ nextProgramId = 2
    /\ destroyedTwice = FALSE
    /\ discardedProgram = 0
    /\ restorePending = FALSE
    /\ uniformActive = FreshUniforms(renderer)

Init ==
    /\ InitRenderer
    /\ ortho = DefaultOrtho
    /\ orthoCalls = NoOrthoCalls

----------------------------------------------------------------------------
(* Operations on the scene and the frame *)

(* a section plane is added to scene._sectionPlanesState.sectionPlanes *)
addSectionPlane ==
    /\ Len(sectionPlanes) < MaxPlanes
    /\ \E p \in Planes \ RangeOf(sectionPlanes) : sectionPlanes' = Append(sectionPlanes, p)
    /\ lastCall' = PlainCall("addSectionPlane")
    /\ UNCHANGED <<renderer, frameCtx, nextProgramId, destroyedTwice, discardedProgram,
                   restorePending, uniformActive>>

(* a section plane is removed from the list *)
removeSectionPlane ==
    /\ \E i \in 1..Len(sectionPlanes) : sectionPlanes' = RemoveAt(sectionPlanes, i)
    /\ lastCall' = PlainCall("removeSectionPlane")
    /\ UNCHANGED <<renderer, frameCtx, nextProgramId, destroyedTwice, discardedProgram,
                   restorePending, uniformActive>>

(* the frame orchestrator resets the frame context at the start of a frame *)
frameStart ==
    /\ frameCtx' = FreshFrameCtx
    /\ lastCall' = PlainCall("frameStart")
    /\ UNCHANGED <<sectionPlanes, renderer, nextProgramId, destroyedTwice, discardedProgram,
                   restorePending, uniformActive>>

----------------------------------------------------------------------------
(* Operations of the renderer *)

drawLayerOf(l, ok) ==
    /\ renderer.program # NoProgram \/ nextProgramId <= MaxPrograms
    /\ LET res == DrawLayerCall(renderer, frameCtx, sectionPlanes, l, nextProgramId, ok)
       IN /\ renderer' = res.renderer
          /\ frameCtx' = res.frameCtx
          /\ nextProgramId' = IF res.allocated THEN nextProgramId + 1 ELSE nextProgramId
          /\ lastCall' = [op |-> "drawLayer", layer |-> l, outcome |-> res.outcome,
                          gl |-> res.gl, allocated |-> res.allocated, bound |-> res.bound,
                          loadSectionPlanes |-> res.loadSectionPlanes]
          /\ uniformActive' = UniformsAfter(IF res.allocated THEN FreshUniforms(res.renderer)
                                            ELSE uniformActive, res.gl)
    /\ restorePending' = FALSE
    /\ UNCHANGED <<sectionPlanes, destroyedTwice, discardedProgram>>

(* the compile outcome is an input only of a call that compiles *)
drawLayer ==
    \E l \in Layers, ok \in (IF renderer.program = NoProgram THEN BOOLEAN ELSE {TRUE}) :
        drawLayerOf(l, ok)

(* variant: the hook leaves the program in place *)
ContextRestoredCall_KeepsProgram(r) == r

(* the renderer fields webglContextRestored() leaves *)
ContextRestoredCall(r) == [r EXCEPT !.program = NoProgram]

webglContextRestored ==
    /\ renderer' = ContextRestoredCall(renderer)
    /\ discardedProgram' = IF renderer.program # NoProgram THEN renderer.program.id
                           ELSE discardedProgram
    /\ restorePending' = TRUE
    /\ uniformActive' = IF renderer'.program = NoProgram THEN <<>> ELSE uniformActive
    /\ lastCall' = PlainCall("webglContextRestored")
    /\ UNCHANGED <<sectionPlanes, frameCtx, nextProgramId, destroyedTwice>>

(* Program.destroy() *)
DestroyProgram(program) == [program EXCEPT !.destroyed = TRUE]

(* variant: the program is destroyed but the reference to it is kept *)
DestroyCall_KeepsProgram(r) ==
    IF r.program # NoProgram THEN [r EXCEPT !.program = DestroyProgram(r.program)] ELSE r

(* the renderer fields destroy() leaves *)
DestroyCall(r) ==
    LET r1 == IF r.program # NoProgram
              THEN [r EXCEPT !.program = DestroyProgram(r.program)] ELSE r
    IN [r1 EXCEPT !.program = NoProgram]

destroy ==
    /\ destroyedTwice' = (destroyedTwice
                            \/ (renderer.program # NoProgram /\ renderer.program.destroyed))
    /\ renderer' = DestroyCall(renderer)
    /\ uniformActive' = IF renderer'.program = NoProgram THEN <<>> ELSE uniformActive
    /\ lastCall' = [PlainCall("destroy") EXCEPT
                      !.gl = IF renderer.program # NoProgram
                             THEN <<<<"destroyProgram", renderer.program.id, 0>>>> ELSE <<>>]
    /\ UNCHANGED <<sectionPlanes, frameCtx, nextProgramId, discardedProgram, restorePending>>

Next ==
    \/ (addSectionPlane /\ UNCHANGED orthoVars)
    \/ (removeSectionPlane /\ UNCHANGED orthoVars)
    \/ (frameStart /\ UNCHANGED orthoVars)
    \/ (drawLayer /\ UNCHANGED orthoVars)
    \/ (webglContextRestored /\ UNCHANGED orthoVars)
    \/ (destroy /\ UNCHANGED orthoVars)

Spec == Init /\ [][Next]_vars

----------------------------------------------------------------------------
(* The Ortho component on its own: any configuration passed to init, then any
   sequence of assignments and matrix reads *)

InitOrtho ==
    /\ sectionPlanes = <<>>
    /\ renderer = Constructor(<<>>, 1, TRUE)
    /\ lastCall = [op |-> "constructor", layer |-> 0, outcome |-> "returned",
                   gl |-> AllocateCalls(1, TRUE), allocated |-> TRUE, bound |-> FALSE,
                   loadSectionPlanes |-> FALSE]
    /\ frameCtx = FreshFrameCtx
    /\ nextProgramId = 2
    /\ destroyedTwice = FALSE
    /\ discardedProgram = 0
    /\ restorePending = FALSE
    /\ uniformActive = FreshUniforms(renderer)
    /\ \E sc \in ScaleInputs, n \in NearInputs, f \in FarInputs :
          ortho = OrthoInit([scale |-> sc, near |-> n, far |-> f])
    /\ orthoCalls = NoOrthoCalls

NextOrtho ==
    \/ (setScale /\ UNCHANGED rendererVars)
    \/ (setNear /\ UNCHANGED rendererVars)
    \/ (setFar /\ UNCHANGED rendererVars)
    \/ (getMatrix /\ UNCHANGED rendererVars)

SpecOrtho == InitOrtho /\ [][NextOrtho]_vars

----------------------------------------------------------------------------
(* Observations on the last call *)

DrawCalls == Count(lastCall.gl, "drawElements")

SectionPlaneWrites(calls) ==
    Count(calls, "sectionPlaneActive") + Count(calls, "sectionPlanePos")
        + Count(calls, "sectionPlaneDir")

----------------------------------------------------------------------------
(* C1: while the renderer holds a program whose compilation failed (no reallocation
   has been forced since the failure), a drawLayer call issues no drawElements. *)
C1_NoDrawWithFailedProgram ==
    (lastCall.op = "drawLayer" /\ renderer.program.errors) => DrawCalls = 0

(* C2: drawLayer binds the program exactly when frameCtx.lastProgramId differs from
   the program's id, and then once; so a layer drawn right after another layer was
   drawn with the same program is drawn without any bind. *)
C2_BindAtMostOncePerProgram ==
    [][(lastCall'.op = "drawLayer" /\ lastCall'.outcome # "returned") =>
          /\ lastCall'.bound = (frameCtx.lastProgramId # renderer'.program.id)
          /\ Count(lastCall'.gl, "bind") = (IF lastCall'.bound THEN 1 ELSE 0)
          /\ (lastCall.op = "drawLayer" /\ lastCall.outcome = "drew"
                 /\ renderer'.program = renderer.program)
               => Count(lastCall'.gl, "bind") = 0]_vars

(* C2 witness: a layer has been drawn without a bind *)
C2_Witness ==
    lastCall.op = "drawLayer" /\ lastCall.outcome = "drew" /\ ~lastCall.bound
        /\ Count(lastCall.gl, "bind") = 0

(* C3 as stated: in every drawLayer call the section-plane reload happens exactly
   when the call rebound the program or the layer's RTC center differs by value
   from the frameCtx.lastRTCCenter the call started with. *)
C3_ReloadIffInEveryCall ==
    [][lastCall'.op = "drawLayer" =>
          (lastCall'.loadSectionPlanes
             = (lastCall'.bound \/ rtcCenter(lastCall'.layer) # frameCtx.lastRTCCenter))]_vars

(* C3 amended: the same equivalence for every drawLayer call that does not return
   early on compile errors. *)
C3_ReloadIffWhenNotReturnedEarly ==
    [][(lastCall'.op = "drawLayer" /\ lastCall'.outcome # "returned") =>
          (lastCall'.loadSectionPlanes
             = (lastCall'.bound \/ rtcCenter(lastCall'.layer) # frameCtx.lastRTCCenter))]_vars

(* C3 witness: a draw that reloaded the section planes for a changed RTC center
   alone, without a rebind *)
C3_Witness ==
    lastCall.op = "drawLayer" /\ lastCall.outcome = "drew" /\ ~lastCall.bound
        /\ lastCall.loadSectionPlanes /\ SectionPlaneWrites(lastCall.gl) > 0

(* C4: getValid() is false right after a section plane is added to or removed from
   a scene the renderer was valid for, and true right after any allocation
   (the constructor's or a lazy one inside drawLayer). *)
C4_ValidAfterReallocation ==
    [][/\ (lastCall'.op \in {"addSectionPlane", "removeSectionPlane"}
            /\ getValid(renderer, sectionPlanes)) => ~getValid(renderer', sectionPlanes')
       /\ (lastCall'.allocated /\ ~renderer'.program.errors)
             => getValid(renderer', sectionPlanes')]_vars

(* C5: the first drawLayer after webglContextRestored() creates a new Program, binds
   and draws only with that program and only after its locations were cached, and no
   drawLayer binds or draws with the program the hook discarded. *)
C5_ReallocatesAfterContextRestored ==
    [][lastCall'.op = "drawLayer" =>
          /\ restorePending =>
                /\ lastCall'.allocated
                /\ lastCall'.gl[1] = <<"newProgram", nextProgramId, 0>>
                /\ renderer'.program.id = nextProgramId
                /\ nextProgramId # discardedProgram
                /\ \A i \in 1..Len(lastCall'.gl) :
                      lastCall'.gl[i][1] \in {"bind", "drawElements"} =>
                         \E j \in 1..(i - 1) :
                            lastCall'.gl[j] = <<"getLocations", nextProgramId, 0>>
          /\ \A i \in 1..Len(lastCall'.gl) :
                /\ lastCall'.gl[i][1] = "bind" => lastCall'.gl[i][2] # discardedProgram
                /\ lastCall'.gl[i][1] = "drawElements" =>
                      lastCall'.gl[i][3] # discardedProgram]_vars

(* C5 witness: a drawLayer that allocated a program after the hook discarded one,
   and drew with it *)
C5_Witness ==
    lastCall.op = "drawLayer" /\ lastCall.allocated /\ lastCall.outcome = "drew"
        /\ discardedProgram # 0 /\ renderer.program.id # discardedProgram

C7_DestroySafe ==
    [][lastCall'.op = "destroy" =>
          /\ lastCall'.outcome = "returned"
          /\ renderer'.program = NoProgram
          /\ lastCall'.gl = (IF renderer.program # NoProgram
                             THEN <<<<"destroyProgram", renderer.program.id, 0>>>>
                             ELSE <<>>)
          /\ ~destroyedTwice']_vars

(* C7 witness: destroy() released a program whose compilation had failed *)
C7_Witness ==
    lastCall.op = "destroy" /\ Count(lastCall.gl, "destroyProgram") = 1
        /\ renderer.program = NoProgram /\ renderer.errors

(* C8: with no section planes, a layer without RTC center, a held program that
   compiled and a fresh frame context, drawLayer issues one bind, one decode-matrix
   write, no section-plane write and one drawElements. *)
C8_SingleDrawCounts ==
    [][(/\ lastCall'.op = "drawLayer"
        /\ sectionPlanes = <<>>
        /\ rtcCenter(lastCall'.layer) = NullVec
        /\ renderer.program # NoProgram /\ ~renderer.program.errors
        /\ frameCtx = FreshFrameCtx) =>
          /\ Count(lastCall'.gl, "bind") = 1
          /\ Count(lastCall'.gl, "positionsDecodeMatrix") = 1
          /\ SectionPlaneWrites(lastCall'.gl) = 0
          /\ Count(lastCall'.gl, "drawElements") = 1]_vars

(* C8 witness: such a draw has happened *)
C8_Witness ==
    /\ lastCall.op = "drawLayer" /\ lastCall.outcome = "drew" /\ lastCall.bound
    /\ sectionPlanes = <<>> /\ rtcCenter(lastCall.layer) = NullVec
    /\ ~renderer.program.errors /\ frameCtx.lastRTCCenter = NullVec

(* C9: after an assignment to scale, the scale the getter returns is never below 0.01. *)
C9_ScaleAtLeastMin == orthoCalls.op = "scale" => ortho.scale >= MinScale

(* C10: undefined or null stores the default of the property, any other near or far
   value is stored as given, and each setter calls _needUpdate() and then fires one
   event named after the property with the stored value. *)
C10_SettersStoreAndFire ==
    LET isDefaulted == orthoCalls.value \in {Undefined, Null}
    IN /\ orthoCalls.op = "scale" =>
             /\ isDefaulted => ortho.scale = DefaultScale
             /\ orthoCalls.calls = <<<<"_needUpdate", "", 0>>, <<"fire", "scale", ortho.scale>>>>
             /\ ortho.updateScheduled
       /\ orthoCalls.op = "near" =>
             /\ ortho.near = (IF isDefaulted THEN DefaultNear ELSE orthoCalls.value.v)
             /\ orthoCalls.calls = <<<<"_needUpdate", "", 0>>, <<"fire", "near", ortho.near>>>>
             /\ ortho.updateScheduled
       /\ orthoCalls.op = "far" =>
             /\ ortho.far = (IF isDefaulted THEN DefaultFar ELSE orthoCalls.value.v)
             /\ orthoCalls.calls = <<<<"_needUpdate", "", 0>>, <<"fire", "far", ortho.far>>>>
             /\ ortho.updateScheduled

(* C10 witness: null was assigned to near and the default was stored and fired *)
C10_Witness ==
    orthoCalls.op = "near" /\ orthoCalls.value = Null /\ ortho.near = DefaultNear
        /\ orthoCalls.calls[2] = <<"fire", "near", DefaultNear>>

----------------------------------------------------------------------------
(* Observations on the section-plane reload *)

(* the section-plane uniform writes among a sequence of GPU calls, in order *)
SectionPlaneCalls(calls) ==
    SelectSeq(calls, LAMBDA c : c[1] \in {"sectionPlaneActive", "sectionPlanePos",
                                           "sectionPlaneDir"})

(* the writes a complete reload for layer l makes for planes i .. n-1: active for
   each plane from the layer's own flag, then position (1: RTC-relative, 0: world)
   and direction for an active plane only *)
RECURSIVE ExpectedSectionPlaneWrites(_, _, _)
ExpectedSectionPlaneWrites(l, n, i) ==
    IF i >= n THEN <<>>
    ELSE (IF sectionPlanesActivePerLayer(layerIndex(l) * n + i, n)
          THEN <<<<"sectionPlaneActive", i, 1>>,
                 <<"sectionPlanePos", i, IF rtcCenter(l) = NullVec THEN 0 ELSE 1>>,
                 <<"sectionPlaneDir", i, 0>>>>
          ELSE <<<<"sectionPlaneActive", i, 0>>>>)
         \o ExpectedSectionPlaneWrites(l, n, i + 1)

(* C11: whenever drawLayer reloads the section-plane uniforms, it writes active for
   every section plane of the scene in insertion order from the drawn layer's flag
   sectionPlanesActivePerLayer[layerIndex * numSectionPlanes + planeIndex], position
   (RTC-relative with an RTC center, world otherwise) and direction for each active
   plane, and neither for an inactive plane. *)
C11_ReloadWritesEveryPlane ==
    (lastCall.op = "drawLayer" /\ lastCall.loadSectionPlanes) =>
        SectionPlaneCalls(lastCall.gl)
            = ExpectedSectionPlaneWrites(lastCall.layer, Len(sectionPlanes), 0)

----------------------------------------------------------------------------
(* Observations on the draw sequence *)

(* the names of the vertex attribute buffer binds *)
AttributeBinds == {"aPosition", "aOffset", "aColor", "aFlags", "aFlags2"}

(* position of the only call named name in a sequence of GPU calls, 0 if there is
   none or more than one *)
IndexOfOnly(calls, name) ==
    IF Count(calls, name) = 1 THEN CHOOSE i \in 1..Len(calls) : calls[i][1] = name ELSE 0

(* C12: a drawLayer call that draws writes the decode matrix, then binds vertex
   attribute buffers, then binds the index buffer, then issues exactly one
   drawElements for the layer; the position buffer is always bound, and the offset,
   color and flags2 buffers exactly when the compiled shader declares the attribute. *)
C12_DrawSequenceOrder ==
    (lastCall.op = "drawLayer" /\ lastCall.outcome = "drew") =>
        LET g == lastCall.gl
            d == IndexOfOnly(g, "positionsDecodeMatrix")
            n == Len(g)
            bound(a) == Count(g, a) = 1
        IN /\ d > 0 /\ n >= d + 3
           /\ \A i \in (d + 1)..(n - 2) : g[i][1] \in AttributeBinds /\ g[i][2] = lastCall.layer
           /\ \A a \in AttributeBinds : Count(g, a) <= 1
           /\ g[n - 1] = <<"indicesBuf", lastCall.layer, 0>>
           /\ g[n] = <<"drawElements", lastCall.layer, renderer.program.id>>
           /\ Count(g, "indicesBuf") = 1 /\ Count(g, "drawElements") = 1
           /\ bound("aPosition")
           /\ bound("aOffset") = ("offset" \in renderer.shaderAttrs)
           /\ bound("aColor") = ("color" \in renderer.shaderAttrs)
           /\ bound("aFlags2") = ("flags2" \in renderer.shaderAttrs)

(* C12 witness: a draw with a shader that declares none of the optional attributes,
   with the position buffer bound and the offset, color and flags2 buffers not *)
C12_Witness ==
    /\ lastCall.op = "drawLayer" /\ lastCall.outcome = "drew"
    /\ renderer.shaderAttrs = {}
    /\ Count(lastCall.gl, "aPosition") = 1
    /\ Count(lastCall.gl, "aOffset") + Count(lastCall.gl, "aColor")
          + Count(lastCall.gl, "aFlags2") = 0

(* C13: a drawLayer call that draws writes the view-matrix uniform once, with the
   RTC view matrix exactly when the layer's RTC center is non-null and with the
   model's view matrix otherwise, and the projection uniform once with the camera's
   projection matrix, whatever the frame context held. *)
C13_MatricesAlwaysWritten ==
    (lastCall.op = "drawLayer" /\ lastCall.outcome = "drew") =>
        LET g == lastCall.gl
            v == IndexOfOnly(g, "viewMatrix")
            p == IndexOfOnly(g, "projMatrix")
        IN /\ v > 0 /\ p > 0
           /\ g[v][2] = lastCall.layer
           /\ (g[v][3] = 1) = (rtcCenter(lastCall.layer) # NullVec)
           /\ (g[v][3] = 0) = (rtcCenter(lastCall.layer) = NullVec)
           /\ g[p] = <<"projMatrix", lastCall.layer, 0>>

(* C13 witness: a draw of a layer with an RTC center that neither rebound the program
   nor reloaded the section planes, and wrote the RTC view matrix and the projection *)
C13_Witness ==
    /\ lastCall.op = "drawLayer" /\ lastCall.outcome = "drew"
    /\ ~lastCall.bound /\ ~lastCall.loadSectionPlanes
    /\ rtcCenter(lastCall.layer) # NullVec
    /\ Count(lastCall.gl, "viewMatrix") = 1 /\ Count(lastCall.gl, "projMatrix") = 1
    /\ lastCall.gl[1] = <<"viewMatrix", lastCall.layer, 1>>

(* C14: at every drawElements issued by drawLayer, for every section plane of the
   scene the sectionPlaneActive uniform value loaded in the renderer's program is
   the drawn layer's own flag sectionPlanesActivePerLayer[layerIndex *
   numSectionPlanes + planeIndex], also when the reload was elided. *)
C14_LoadedFlagsAreDrawnLayers ==
    (lastCall.op = "drawLayer" /\ DrawCalls > 0) =>
        LET n == Len(sectionPlanes)
        IN \A i \in 0..(n - 1) :
              /\ i < Len(uniformActive)
              /\ (uniformActive[i + 1] = 1)
                    = sectionPlanesActivePerLayer(layerIndex(lastCall.layer) * n + i, n)

(* C15: the renderer's errors field reflects the program it holds: it is set exactly
   when the allocation that created the held program failed to compile, and a
   drawLayer call whose reallocation succeeded does not return early on errors. *)
C15_ErrorsReflectsHeldProgram ==
    /\ renderer.program # NoProgram => (renderer.errors = renderer.program.errors)
    /\ (lastCall.op = "drawLayer" /\ lastCall.allocated /\ ~renderer.program.errors)
          => lastCall.outcome # "returned"

(* C16: a drawLayer call that does not return early leaves frameCtx.lastProgramId
   equal to the id of the renderer's program and frameCtx.lastRTCCenter null for a
   layer without RTC center and equal by value to the layer's RTC center otherwise;
   a drawLayer call that returns early on compile errors leaves frameCtx as it was. *)
C16_FrameCtxAfterDrawLayer ==
    [][lastCall'.op = "drawLayer" =>
          IF lastCall'.outcome = "returned"
          THEN frameCtx' = frameCtx
          ELSE /\ frameCtx'.lastProgramId = renderer'.program.id
               /\ (rtcCenter(lastCall'.layer) = NullVec) => frameCtx'.lastRTCCenter = NullVec
               /\ (rtcCenter(lastCall'.layer) # NullVec) =>
                     /\ frameCtx'.lastRTCCenter # NullVec
                     /\ compareVec3(frameCtx'.lastRTCCenter, rtcCenter(lastCall'.layer))]_vars

(* C16 witness: a layer with an RTC center was drawn after another layer with an
   equal center, without a reload, and the frame context holds that center and the
   program's id *)
C16_Witness ==
    /\ lastCall.op = "drawLayer" /\ lastCall.outcome = "drew"
    /\ ~lastCall.loadSectionPlanes /\ lastCall.layer = 4
    /\ frameCtx.lastProgramId = renderer.program.id
    /\ frameCtx.lastRTCCenter = rtcCenter(3)

(* C17: whenever drawLayer reloads the section-plane uniforms with the list
   _uSectionPlanes an allocation cached, every index 0 .. numSectionPlanes-1 it reads
   in that list is in range, whatever planes were added or removed since the
   allocation, and the call does not fail. *)
C17_UniformIndexInRange ==
    (lastCall.op = "drawLayer" /\ lastCall.loadSectionPlanes /\ renderer.located) =>
        /\ \A i \in 0..(Len(sectionPlanes) - 1) : i < renderer.uSectionPlanes
        /\ lastCall.outcome # "threw"

(* C18: once destroy() has been called the renderer never again creates or holds a
   GPU program; stated for the call that follows destroy(): a drawLayer call made
   right after destroy() allocates no new Program, leaves the renderer without a
   program and issues no draw call. *)
C18_NoProgramAfterDestroy ==
    [][(lastCall.op = "destroy" /\ lastCall'.op = "drawLayer") =>
          /\ ~lastCall'.allocated
          /\ Count(lastCall'.gl, "newProgram") = 0
          /\ renderer'.program = NoProgram
          /\ Count(lastCall'.gl, "drawElements") = 0]_vars

====
